---- MODULE Spec2Model ----
(***************************************************************************)
(* Model of tooling/bundler/src/bundle/updater_bundle.rs: the updater      *)
(* bundle stage of the bundler.  One call of bundle_project is modelled as *)
(* a sequential program whose position is pc.                              *)
(*                                                                         *)
(* Representation.  A string is a sequence of tokens; the tokens "." and   *)
(* "-updater" are kept apart so that extension handling and strip_suffix   *)
(* are computed and not assumed.  A path is the sequence of its            *)
(* components (what Path::components yields), a component is a record      *)
(* [kind, name].  The target triple is the sequence of its hyphen          *)
(* separated parts.                                                        *)
(***************************************************************************)
EXTENDS Naturals, Sequences, FiniteSets, TLC

VARIABLES hostOs, target, mode, bundles,
          pc, targetOs, routine, bundle_paths, idx,
          installers_archived_paths, written, result,
          rebuildCalls, toolLog, rebuilt

vars == <<hostOs, target, mode, bundles, pc, targetOs, routine, bundle_paths,
          idx, installers_archived_paths, written, result, rebuildCalls,
          toolLog, rebuilt>>

-----------------------------------------------------------------------------
(* Bounds *)

MaxBundles == 2

MaxSegs == 4

-----------------------------------------------------------------------------
(* Option values *)

None == [some |-> FALSE, val |-> <<>>]

Some(v) == [some |-> TRUE, val |-> v]

-----------------------------------------------------------------------------
(* Paths *)

Normal(name) == [kind |-> "Normal", name |-> name]

RootDir == [kind |-> "RootDir", name |-> <<"/">>]

ParentDir == [kind |-> "ParentDir", name |-> <<".", ".">>]

\* Path::file_name: the last component when it is a normal one.
FileName(path) ==
  IF path # <<>> /\ path[Len(path)].kind = "Normal"
  THEN Some(path[Len(path)].name)
  ELSE None

HasDot(name) == \E i \in 1..Len(name) : name[i] = "."

LastDot(name) == CHOOSE i \in 1..Len(name) :
  name[i] = "." /\ \A j \in (i+1)..Len(name) : name[j] # "."

\* std::path rsplit_file_at_dot: (stem, extension) of a file name.
RSplitFileAtDot(name) ==
  IF name = <<".", ".">> \/ ~HasDot(name)
  THEN [stem |-> name, ext |-> None]
  ELSE LET k == LastDot(name)
           before == SubSeq(name, 1, k - 1)
           after == SubSeq(name, k + 1, Len(name))
       IN IF before = <<>>
          THEN [stem |-> name, ext |-> None]
          ELSE [stem |-> before, ext |-> Some(after)]

\* Path::extension
Extension(path) ==
  IF FileName(path).some THEN RSplitFileAtDot(FileName(path).val).ext ELSE None

\* Path::file_stem
FileStem(path) ==
  IF FileName(path).some
  THEN Some(RSplitFileAtDot(FileName(path).val).stem)
  ELSE None

\* Path::with_extension: PathBuf::set_extension on a copy.  Without a file
\* name the path is left as it is; otherwise the file name is cut back to
\* its stem and "." and the extension are appended when it is not empty.
WithExtension(path, ext) ==
  IF ~FileStem(path).some
  THEN path
  ELSE LET stem == FileStem(path).val
           name == IF ext = <<>> THEN stem ELSE stem \o <<".">> \o ext
       IN [path EXCEPT ![Len(path)] = Normal(name)]

\* format!("{}<suffix>", path.display()) read back with PathBuf::from: the
\* suffix is appended to the text of the path, that is to its last component.
DisplayAppend(path, suffix) ==
  IF path # <<>> /\ path[Len(path)].kind = "Normal"
  THEN [path EXCEPT ![Len(path)] = Normal(path[Len(path)].name \o suffix)]
  ELSE Append(path, Normal(suffix))

-----------------------------------------------------------------------------
(* Output folder names of the Windows installers *)

WIX_OUTPUT_FOLDER_NAME == <<"msi">>

WIX_UPDATER_OUTPUT_FOLDER_NAME == <<"msi", "-updater">>

NSIS_OUTPUT_FOLDER_NAME == <<"nsis">>

NSIS_UPDATER_OUTPUT_FOLDER_NAME == <<"nsis", "-updater">>

\* str::strip_suffix("-updater")
StripSuffixUpdater(name) ==
  IF name # <<>> /\ name[Len(name)] = "-updater"
  THEN Some(SubSeq(name, 1, Len(name) - 1))
  ELSE None

-----------------------------------------------------------------------------
(* Inputs *)

HostOses == {"windows", "macos", "linux", "freebsd"}

Targets == {
  <<"x86_64", "pc", "windows", "msvc">>,
  <<"aarch64", "apple", "darwin">>,
  <<"x86_64", "unknown", "linux", "gnu">>,
  <<"x86_64", "unknown", "freebsd">>,
  <<"wasm32", "unknown">> }

WebviewInstallModes == {"DownloadBootstrapper", "EmbedBootstrapper", "OfflineInstaller"}

PackageTypes == {"MacOsBundle", "AppImage", "WindowsMsi", "Nsis", "Deb"}

File(stem, ext) == Normal(<<stem, ".", ext>>)

pApp1 == <<Normal(<<"macos">>), File("App", "app")>>
pApp2 == <<Normal(<<"macos">>), File("Helper", "app")>>
pImg1 == <<Normal(<<"appimage">>), File("App", "AppImage")>>
pImg2 == <<Normal(<<"appimage">>), File("Helper", "AppImage")>>
pDeb == <<Normal(<<"deb">>), File("App", "deb")>>
pNsis == <<Normal(NSIS_OUTPUT_FOLDER_NAME), File("App", "exe")>>
pNsisUpd == <<Normal(NSIS_UPDATER_OUTPUT_FOLDER_NAME), File("App", "exe")>>
pMsi == <<Normal(WIX_OUTPUT_FOLDER_NAME), File("App", "msi")>>
pMsiUpd == <<Normal(WIX_UPDATER_OUTPUT_FOLDER_NAME), File("App", "msi")>>

Bundle(t, ps) == [package_type |-> t, bundle_paths |-> ps]

BundlePool == {
  Bundle("MacOsBundle", <<pApp1, pApp2>>),
  Bundle("MacOsBundle", <<pDeb, pApp2>>),
  Bundle("MacOsBundle", <<pImg1>>),
  Bundle("AppImage", <<pImg1, pImg2>>),
  Bundle("AppImage", <<pApp1, pImg2>>),
  Bundle("Deb", <<pDeb>>),
  Bundle("Nsis", <<pNsis>>),
  Bundle("Nsis", <<pNsisUpd>>),
  Bundle("Nsis", <<>>),
  Bundle("WindowsMsi", <<pMsi>>),
  Bundle("WindowsMsi", <<>>) }

SeqsUpTo(S, n) == UNION {[1..k -> S] : k \in 0..n}

\* What the installer toolchains may answer to bundle_project(settings, true).
Ok(paths) == [kind |-> "Ok", paths |-> paths, err |-> "none"]

Err(e) == [kind |-> "Err", paths |-> <<>>, err |-> e]

NoResult == [kind |-> "none", paths |-> <<>>, err |-> "none"]

MsiOutcomes == {Ok(<<pMsiUpd>>), Err("Toolchain")}

NsisOutcomes == {Ok(<<pNsisUpd>>), Ok(<<>>), Err("Toolchain")}

-----------------------------------------------------------------------------
(* bundle_project: target OS and dispatch *)

\* str::replace("darwin", "macos") on one part of the triple
ReplaceDarwin(s) == IF s = "darwin" THEN "macos" ELSE s

\* settings.target().split('-').nth(2).unwrap_or(std::env::consts::OS)
\*   .replace("darwin", "macos")
TargetOs(t, host) == ReplaceDarwin(IF Len(t) >= 3 THEN t[3] ELSE host)

\* The routine bundle_project runs: the Windows one on a windows target,
\* otherwise the one the build was compiled with (cfg(target_os)).
Dispatch(host, tos) ==
  IF tos = "windows" THEN "bundle_update_windows"
  ELSE IF host = "macos" THEN "bundle_update_macos"
  ELSE IF host = "linux" THEN "bundle_update_linux"
  ELSE "unsupported"

-----------------------------------------------------------------------------
(* Artifact discovery of the macOS and Linux routines *)

RECURSIVE FindPath_Last(_, _)
\* Mutant of FindPath: the last path with the extension, not the first.
FindPath_Last(paths, ext) ==
  IF paths = <<>> THEN None
  ELSE IF FindPath_Last(Tail(paths), ext).some THEN FindPath_Last(Tail(paths), ext)
  ELSE IF Extension(Head(paths)) = Some(ext) THEN Some(Head(paths))
  ELSE None

RECURSIVE FindPath(_, _)
\* bundle_paths.iter().find(|path| path.extension() == Some(ext))
FindPath(paths, ext) ==
  IF paths = <<>> THEN None
  ELSE IF Extension(Head(paths)) = Some(ext) THEN Some(Head(paths))
  ELSE FindPath(Tail(paths), ext)

RECURSIVE FindArtifact_AnyType(_, _, _)
\* Mutant of FindArtifact: the package type filter is left out.
FindArtifact_AnyType(bs, t, ext) ==
  IF bs = <<>> THEN None
  ELSE IF FindPath(Head(bs).bundle_paths, ext).some
  THEN FindPath(Head(bs).bundle_paths, ext)
  ELSE FindArtifact_AnyType(Tail(bs), t, ext)

RECURSIVE FindArtifact(_, _, _)
\* bundles.iter().filter(package_type == t).find_map(first path with ext)
FindArtifact(bs, t, ext) ==
  IF bs = <<>> THEN None
  ELSE IF Head(bs).package_type = t /\ FindPath(Head(bs).bundle_paths, ext).some
  THEN FindPath(Head(bs).bundle_paths, ext)
  ELSE FindArtifact(Tail(bs), t, ext)

TarGz == <<".", "tar", ".", "gz">>

\* One archive written: the source, the destination and the entry name.
Job(format, src, dst) ==
  [format |-> format, src |-> src, dst |-> dst, entry |-> FileName(src).val]

-----------------------------------------------------------------------------
(* The Windows routine *)

InstallerTypes == {"WindowsMsi", "Nsis"}

RECURSIVE InstallerPaths(_)
\* bundles.iter().filter(WindowsMsi | Nsis).flat_map(bundle_paths).collect()
InstallerPaths(bs) ==
  IF bs = <<>> THEN <<>>
  ELSE (IF Head(bs).package_type \in InstallerTypes
        THEN Head(bs).bundle_paths ELSE <<>>) \o InstallerPaths(Tail(bs))

\* Mutant of ForcesRebuild: EmbedBootstrapper is left out of the pattern.
ForcesRebuild_OfflineOnly(m) == m = "OfflineInstaller"

\* matches!(webview_install_mode, OfflineInstaller | EmbedBootstrapper)
ForcesRebuild(m) == m \in {"OfflineInstaller", "EmbedBootstrapper"}

\* Whether rebuild_installers is called, and what bundle_paths holds if not.
MustRebuild(m, bs) == ForcesRebuild(m) \/ InstallerPaths(bs) = <<>>

\* The toolchain a bundle is rebuilt with inside rebuild_installers; the msi
\* arm exists only in a build for a Windows host.
RebuildArm(host, t) ==
  IF t = "WindowsMsi" /\ host = "windows" THEN "msi"
  ELSE IF t = "Nsis" THEN "nsis"
  ELSE "skip"

\* Mutant of FoldStep: a plain output folder does not set the bundle name.
FoldStep_NoPlainMarker(acc, c) ==
  IF c.kind = "Normal"
     /\ c.name \in {WIX_UPDATER_OUTPUT_FOLDER_NAME, NSIS_UPDATER_OUTPUT_FOLDER_NAME}
  THEN LET b == StripSuffixUpdater(c.name).val
       IN [p |-> Append(acc.p, Normal(b)), b |-> b]
  ELSE [p |-> Append(acc.p, c), b |-> acc.b]

\* One step of the fold over source_path.components().
FoldStep(acc, c) ==
  IF c.kind = "Normal"
     /\ c.name \in {WIX_UPDATER_OUTPUT_FOLDER_NAME, NSIS_UPDATER_OUTPUT_FOLDER_NAME}
  THEN LET b == StripSuffixUpdater(c.name).val
       IN [p |-> Append(acc.p, Normal(b)), b |-> b]
  ELSE [p |-> Append(acc.p, c),
        b |-> IF c.kind = "Normal"
                 /\ c.name \in {WIX_OUTPUT_FOLDER_NAME, NSIS_OUTPUT_FOLDER_NAME}
              THEN c.name ELSE acc.b]

RECURSIVE Fold(_, _)
Fold(acc, comps) ==
  IF comps = <<>> THEN acc ELSE Fold(FoldStep(acc, Head(comps)), Tail(comps))

\* Mutant of ArchivedPath: the extension is "zip", without the bundle name.
ArchivedPath_PlainZip(source_path) ==
  WithExtension(Fold([p |-> <<>>, b |-> <<>>], source_path).p, <<"zip">>)

\* archived_path.with_extension(format!("{}.zip", bundle_name))
ArchivedPath(source_path) ==
  LET r == Fold([p |-> <<>>, b |-> <<>>], source_path)
  IN WithExtension(r.p, r.b \o <<".", "zip">>)

-----------------------------------------------------------------------------
(* Initial states *)

Idle ==
  /\ targetOs = "none"
  /\ routine = "none"
  /\ bundle_paths = <<>>
  /\ idx = 1
  /\ installers_archived_paths = <<>>
  /\ written = <<>>
  /\ result = NoResult
  /\ rebuildCalls = 0
  /\ toolLog = <<>>
  /\ rebuilt = <<>>

Init ==
  /\ hostOs \in HostOses
  /\ target \in Targets
  /\ mode \in WebviewInstallModes
  /\ bundles \in SeqsUpTo(BundlePool, MaxBundles)
  /\ pc = "bundle_project"
  /\ Idle

-----------------------------------------------------------------------------
(* Actions *)

Inputs == <<hostOs, target, mode, bundles>>

bundle_project ==
  /\ pc = "bundle_project"
  /\ targetOs' = TargetOs(target, hostOs)
  /\ routine' = Dispatch(hostOs, targetOs')
  /\ IF routine' = "unsupported"
     THEN pc' = "done" /\ result' = Ok(<<>>)
     ELSE pc' = routine' /\ result' = result
  /\ UNCHANGED <<Inputs, bundle_paths, idx, installers_archived_paths, written,
                 rebuildCalls, toolLog, rebuilt>>

\* The body shared by bundle_update_macos and bundle_update_linux, which
\* differ in the package type and the extension they look for.
UpdateTar(t, ext) ==
  LET found == FindArtifact(bundles, t, ext)
  IN /\ pc' = "done"
     /\ IF found.some
        THEN LET dst == DisplayAppend(found.val, TarGz)
             IN \/ /\ written' = Append(written, Job("tar.gz", found.val, dst))
                   /\ result' = Ok(<<dst>>)
                \/ /\ written' = written
                   /\ result' = Err("Failed to tar.gz update directory")
        ELSE /\ written' = written
             /\ result' = Err("UnableToFindProject")
     /\ UNCHANGED <<Inputs, targetOs, routine, bundle_paths, idx,
                    installers_archived_paths, rebuildCalls, toolLog, rebuilt>>

bundle_update_macos ==
  /\ pc = "bundle_update_macos"
  /\ UpdateTar("MacOsBundle", <<"app">>)

bundle_update_linux ==
  /\ pc = "bundle_update_linux"
  /\ UpdateTar("AppImage", <<"AppImage">>)

\* Lines 149-172: rebuild, or take the paths of the input bundles.
bundle_update_windows ==
  /\ pc = "bundle_update_windows"
  /\ IF MustRebuild(mode, bundles)
     THEN /\ pc' = "rebuild_installers"
          /\ rebuildCalls' = rebuildCalls + 1
          /\ bundle_paths' = bundle_paths
     ELSE /\ pc' = "archive"
          /\ rebuildCalls' = rebuildCalls
          /\ bundle_paths' = bundle_paths \o InstallerPaths(bundles)
  /\ idx' = 1
  /\ UNCHANGED <<Inputs, targetOs, routine, installers_archived_paths, written,
                 result, toolLog, rebuilt>>

\* One iteration of the loop of rebuild_installers, on bundles[idx].
Rebuild(outcomes, arm) ==
  \E out \in outcomes :
    /\ toolLog' = Append(toolLog, [bundle |-> idx, arm |-> arm])
    /\ IF out.kind = "Ok"
       THEN /\ bundle_paths' = bundle_paths \o out.paths
            /\ rebuilt' = rebuilt \o out.paths
            /\ idx' = idx + 1
            /\ pc' = pc
            /\ result' = result
       ELSE /\ pc' = "done"
            /\ result' = out
            /\ UNCHANGED <<bundle_paths, rebuilt, idx>>

rebuild_installers ==
  /\ pc = "rebuild_installers"
  /\ idx <= Len(bundles)
  /\ LET arm == RebuildArm(hostOs, bundles[idx].package_type)
     IN IF arm = "msi" THEN Rebuild(MsiOutcomes, arm)
        ELSE IF arm = "nsis" THEN Rebuild(NsisOutcomes, arm)
        ELSE /\ idx' = idx + 1
             /\ UNCHANGED <<pc, result, bundle_paths, rebuilt, toolLog>>
  /\ UNCHANGED <<Inputs, targetOs, routine, installers_archived_paths, written,
                 rebuildCalls>>

rebuild_installers_end ==
  /\ pc = "rebuild_installers"
  /\ idx > Len(bundles)
  /\ pc' = "archive"
  /\ idx' = 1
  /\ UNCHANGED <<Inputs, targetOs, routine, bundle_paths,
                 installers_archived_paths, written, result, rebuildCalls,
                 toolLog, rebuilt>>

\* One iteration of the loop over bundle_paths (lines 175-206): the
\* destination is computed, create_zip writes it or fails.
archive ==
  /\ pc = "archive"
  /\ idx <= Len(bundle_paths)
  /\ LET source_path == bundle_paths[idx]
         archived_path == ArchivedPath(source_path)
     IN \/ /\ written' = Append(written, Job("zip", source_path, archived_path))
           /\ installers_archived_paths' =
                Append(installers_archived_paths, archived_path)
           /\ idx' = idx + 1
           /\ UNCHANGED <<pc, result>>
        \/ /\ pc' = "done"
           /\ result' = Err("Failed to zip update bundle")
           /\ UNCHANGED <<written, installers_archived_paths, idx>>
  /\ UNCHANGED <<Inputs, targetOs, routine, bundle_paths, rebuildCalls,
                 toolLog, rebuilt>>

\* Line 208
archive_end ==
  /\ pc = "archive"
  /\ idx > Len(bundle_paths)
  /\ pc' = "done"
  /\ result' = Ok(installers_archived_paths)
  /\ UNCHANGED <<Inputs, targetOs, routine, bundle_paths, idx,
                 installers_archived_paths, written, rebuildCalls, toolLog,
                 rebuilt>>

Next ==
  \/ bundle_project
  \/ bundle_update_macos
  \/ bundle_update_linux
  \/ bundle_update_windows
  \/ rebuild_installers
  \/ rebuild_installers_end
  \/ archive
  \/ archive_end

Spec == Init /\ [][Next]_vars

-----------------------------------------------------------------------------
(* The archive loop on its own: the state at line 174 of a call on a        *)
(* Windows host whose single Nsis bundle holds one path, drawn from every   *)
(* path of at most MaxSegs components over the names below.                 *)

DirPool == {
  Normal(<<"windows">>),
  Normal(<<"en-US">>),
  Normal(WIX_OUTPUT_FOLDER_NAME),
  Normal(WIX_UPDATER_OUTPUT_FOLDER_NAME),
  Normal(NSIS_OUTPUT_FOLDER_NAME),
  Normal(NSIS_UPDATER_OUTPUT_FOLDER_NAME),
  ParentDir }

FilePool == {
  File("App", "exe"),
  File("App", "msi"),
  Normal(<<"App">>),
  Normal(<<"App", ".", "tar", ".", "gz">>),
  Normal(<<".", "hidden">>),
  Normal(NSIS_UPDATER_OUTPUT_FOLDER_NAME),
  Normal(WIX_OUTPUT_FOLDER_NAME) }

AllPaths ==
  {root \o dirs \o <<f>> :
     root \in {<<>>, <<RootDir>>},
     dirs \in SeqsUpTo(DirPool, MaxSegs - 1),
     f \in FilePool}

InitArchive ==
  /\ hostOs = "windows"
  /\ target = <<"x86_64", "pc", "windows", "msvc">>
  /\ mode = "DownloadBootstrapper"
  /\ \E source_path \in AllPaths :
       /\ bundles = <<Bundle("Nsis", <<source_path>>)>>
       /\ bundle_paths = InstallerPaths(bundles)
  /\ pc = "archive"
  /\ targetOs = TargetOs(target, hostOs)
  /\ routine = Dispatch(hostOs, targetOs)
  /\ idx = 1
  /\ installers_archived_paths = <<>>
  /\ written = <<>>
  /\ result = NoResult
  /\ rebuildCalls = 0
  /\ toolLog = <<>>
  /\ rebuilt = <<>>

NextArchive ==
  \/ archive
  \/ archive_end

SpecArchive == InitArchive /\ [][NextArchive]_vars

-----------------------------------------------------------------------------
(* Properties.  Done: the call has returned. *)

Done == pc = "done"

SupportedOs == {"windows", "macos", "linux"}

\* C1: whatever the host, a call whose target OS is none of windows, macos,
\* linux returns Ok with no archive path, never an error.
C1_UnsupportedTargetReturnsEmpty ==
  (Done /\ targetOs \notin SupportedOs) => result = Ok(<<>>)

\* C2: the routine that runs is the one of the target OS, whatever the host
\* the bundler was compiled for.
C2_RoutineFollowsTarget ==
  (routine # "none" /\ targetOs \in SupportedOs) =>
    routine = (CASE targetOs = "windows" -> "bundle_update_windows"
                 [] targetOs = "macos" -> "bundle_update_macos"
                 [] targetOs = "linux" -> "bundle_update_linux")

\* C3: a Windows call whose input holds no installer path and whose rebuild
\* yields none (no toolchain failure) fails with UnableToFindProject; it
\* never returns an empty list.
C3_WindowsNothingFoundFails ==
  (/\ Done
   /\ routine = "bundle_update_windows"
   /\ InstallerPaths(bundles) = <<>>
   /\ rebuilt = <<>>
   /\ result.err # "Toolchain")
  => result = Err("UnableToFindProject")

RequiredType == IF routine = "bundle_update_macos" THEN "MacOsBundle" ELSE "AppImage"

RequiredExt == IF routine = "bundle_update_macos" THEN <<"app">> ELSE <<"AppImage">>

TarRoutine == routine \in {"bundle_update_macos", "bundle_update_linux"}

\* Path j of bundle i is an artifact the running tar routine accepts.
Matches(i, j) ==
  /\ i \in DOMAIN bundles
  /\ j \in DOMAIN bundles[i].bundle_paths
  /\ bundles[i].package_type = RequiredType
  /\ Extension(bundles[i].bundle_paths[j]) = Some(RequiredExt)

AnyMatch == \E i \in DOMAIN bundles : \E j \in DOMAIN bundles[i].bundle_paths : Matches(i, j)

Earlier(i2, j2, i, j) == i2 < i \/ (i2 = i /\ j2 < j)

\* The path with ".tar.gz" appended to its text.
WithTarGz(path) ==
  [k \in DOMAIN path |->
     IF k = Len(path)
     THEN Normal(path[k].name \o <<".", "tar", ".", "gz">>)
     ELSE path[k]]

\* C6: a successful macOS or Linux call archives the first match in bundle
\* order then path order, and returns exactly that path with .tar.gz
\* appended.
C6_FirstMatchArchived ==
  (Done /\ TarRoutine /\ result.kind = "Ok") =>
    \E i \in DOMAIN bundles : \E j \in DOMAIN bundles[i].bundle_paths :
      /\ Matches(i, j)
      /\ \A i2 \in DOMAIN bundles : \A j2 \in DOMAIN bundles[i2].bundle_paths :
           Earlier(i2, j2, i, j) => ~Matches(i2, j2)
      /\ result.paths = <<WithTarGz(bundles[i].bundle_paths[j])>>
      /\ Len(written) = 1
      /\ written[1].src = bundles[i].bundle_paths[j]
      /\ written[1].dst = result.paths[1]

\* C6 witness: a successful tar call on a list with several matches, in
\* more than one bundle and more than one path of a bundle.
C6_Witness ==
  /\ Done /\ TarRoutine /\ result.kind = "Ok"
  /\ \E i \in DOMAIN bundles : Matches(i, 1) /\ Matches(i, 2)
  /\ \E i, i2 \in DOMAIN bundles : \E j, j2 \in 1..2 :
       i # i2 /\ Matches(i, j) /\ Matches(i2, j2)
       /\ bundles[i].bundle_paths[j] # bundles[i2].bundle_paths[j2]

Sources == [k \in DOMAIN written |-> written[k].src]

\* C7: a successful Windows call returns one archive path per source
\* artifact, in order, and every WindowsMsi or Nsis bundle of the input
\* contributes: its paths are archived, or it is rebuilt, on any host and in
\* any webview install mode.
C7_EveryInstallerBundleContributes ==
  (Done /\ routine = "bundle_update_windows" /\ result.kind = "Ok") =>
    /\ Len(result.paths) = Len(bundle_paths)
    /\ Sources = bundle_paths
    /\ \A k \in DOMAIN written : result.paths[k] = written[k].dst
    /\ \A i \in DOMAIN bundles :
         bundles[i].package_type \in {"WindowsMsi", "Nsis"} =>
           IF rebuildCalls = 0
           THEN \A j \in DOMAIN bundles[i].bundle_paths :
                  \E k \in DOMAIN Sources : Sources[k] = bundles[i].bundle_paths[j]
           ELSE \E k \in DOMAIN toolLog : toolLog[k].bundle = i

NoInputInstallerPath ==
  \A i \in DOMAIN bundles :
    bundles[i].package_type \in {"WindowsMsi", "Nsis"} => bundles[i].bundle_paths = <<>>

C8_State ==
  /\ rebuildCalls <= 1
  /\ (routine = "bundle_update_windows" /\ pc # "bundle_update_windows") =>
       /\ rebuildCalls = 1 <=>
            (mode \in {"OfflineInstaller", "EmbedBootstrapper"} \/ NoInputInstallerPath)
       /\ rebuildCalls = 1 =>
            /\ bundle_paths = rebuilt
            /\ \A k \in DOMAIN written : written[k].src = rebuilt[k]
       /\ rebuildCalls = 0 =>
            /\ toolLog = <<>>
            /\ bundle_paths = InstallerPaths(bundles)
            /\ \A k \in DOMAIN written : written[k].src = InstallerPaths(bundles)[k]
       /\ (Done /\ result.kind = "Ok") => Len(written) = Len(bundle_paths)

C8_Step ==
  (rebuildCalls' # rebuildCalls \/ toolLog' # toolLog) =>
    (written = <<>> /\ written' = <<>>)

\* C8: the Windows routine rebuilds exactly when the mode is OfflineInstaller
\* or EmbedBootstrapper or the installer bundles hold no path; after a
\* rebuild only rebuilt paths are archived, otherwise the input paths are
\* archived and no toolchain runs; the rebuild is called at most once and
\* before any archive is written.
C8_RebuildExactlyWhenNeeded == [](C8_State) /\ [][C8_Step]_vars

\* C8 witness: a forced rebuild on an input that held installer paths has
\* archived a rebuilt installer and returned.
C8_Witness ==
  /\ Done /\ result.kind = "Ok"
  /\ rebuildCalls = 1
  /\ mode = "EmbedBootstrapper"
  /\ InstallerPaths(bundles) # <<>>
  /\ written # <<>>

\* C10: two different source paths archived in one Windows call never get
\* the same destination path.
C10_DistinctDestinations ==
  \A i, j \in DOMAIN written :
    (written[i].format = "zip" /\ written[j].format = "zip"
     /\ written[i].src # written[j].src) => written[i].dst # written[j].dst

-----------------------------------------------------------------------------
(* Properties of the destination path, stated on the archive loop *)

C5_Tail == <<Normal(<<"windows">>), Normal(<<"nsis", "-updater">>),
             Normal(<<"en-US">>), Normal(<<"App", ".", "exe">>)>>

EndsWith(path, tail) ==
  /\ Len(path) >= Len(tail)
  /\ SubSeq(path, Len(path) - Len(tail) + 1, Len(path)) = tail

\* C5 as stated: .../windows/nsis-updater/en-US/App.exe is archived to
\* .../windows/nsis/en-US/App.zip.
C5_DestinationIsAppZip ==
  \A k \in DOMAIN written :
    EndsWith(written[k].src, C5_Tail) =>
      EndsWith(written[k].dst,
               <<Normal(<<"windows">>), Normal(<<"nsis">>), Normal(<<"en-US">>),
                 Normal(<<"App", ".", "zip">>)>>)

\* C5 amended: .../windows/nsis-updater/en-US/App.exe is archived to
\* .../windows/nsis/en-US/App.nsis.zip, of as many components as the source.
C5_DestinationIsAppNsisZip ==
  \A k \in DOMAIN written :
    EndsWith(written[k].src, C5_Tail) =>
      /\ Len(written[k].dst) = Len(written[k].src)
      /\ EndsWith(written[k].dst,
                  <<Normal(<<"windows">>), Normal(<<"nsis">>), Normal(<<"en-US">>),
                    Normal(<<"App", ".", "nsis", ".", "zip">>)>>)

\* C5 witness: exactly that source path has been archived.
C5_Witness ==
  /\ Done /\ result.kind = "Ok"
  /\ \E k \in DOMAIN written : written[k].src = C5_Tail

UpdaterMarkers == {<<"msi", "-updater">>, <<"nsis", "-updater">>}

PlainMarkers == {<<"msi">>, <<"nsis">>}

IsUpdaterMarker(c) == c.kind = "Normal" /\ c.name \in UpdaterMarkers

IsMarker(c) == c.kind = "Normal" /\ c.name \in (UpdaterMarkers \cup PlainMarkers)

FamilyOf(name) == IF name[1] = "msi" THEN <<"msi">> ELSE <<"nsis">>

\* The component emitted for a source component.
Emitted(c) == IF IsUpdaterMarker(c) THEN Normal(FamilyOf(c.name)) ELSE c

\* The family of the last marker component of the path, "" without one.
BundleNameOf(path) ==
  IF \E i \in DOMAIN path : IsMarker(path[i])
  THEN LET last == CHOOSE i \in DOMAIN path :
                     IsMarker(path[i]) /\ \A j \in DOMAIN path : j > i => ~IsMarker(path[j])
       IN FamilyOf(path[last].name)
  ELSE <<>>

\* C9: the destination has the components of the source in order, updater
\* markers replaced by the family name and all others unchanged, and the
\* extension of its file name replaced with <bundle_name>.zip, bundle_name
\* being the family of the marker seen (the last one), empty without
\* marker; no updater marker is left in a destination.
C9_DestinationRule ==
  \A k \in DOMAIN written :
    LET src == written[k].src
        dst == written[k].dst
        n == Len(src)
    IN /\ Len(dst) = n
       /\ \A i \in 1..(n - 1) : dst[i] = Emitted(src[i])
       /\ dst[n] = Normal(RSplitFileAtDot(Emitted(src[n]).name).stem
                            \o <<".">> \o BundleNameOf(src) \o <<".", "zip">>)
       /\ Extension(dst) = Some(<<"zip">>)
       /\ \A i \in 1..n : ~IsUpdaterMarker(dst[i])

\* C9 witness: a path with an updater marker, then a plain marker of the
\* other family, then a component that is not a normal one has been archived.
C9_Witness ==
  /\ Done /\ result.kind = "Ok"
  /\ \E k \in DOMAIN written :
       /\ written[k].src = <<Normal(<<"msi", "-updater">>), Normal(<<"nsis">>),
                             ParentDir, Normal(<<"App", ".", "exe">>)>>
       /\ written[k].dst = <<Normal(<<"msi">>), Normal(<<"nsis">>),
                             ParentDir, Normal(<<"App", ".", "nsis", ".", "zip">>)>>

====
